---- MODULE Spec2Model ----
(***************************************************************************)
(* Model of the funnel dashboard script app.py: one script run from the    *)
(* CSV load to the last derived table.  Every action is one block of the   *)
(* script, in the order the script executes them.                          *)
(*                                                                         *)
(* Floating point values (pandas float64 columns) are modelled as tagged   *)
(* exact rationals: "fin" n/d, "nan", "inf" (+infinity), "ninf"            *)
(* (-infinity).  Rates are rounded to hundredths the way .round(2) does    *)
(* (round half to even); the bounds avoid exact ties, where float64 noise  *)
(* could decide differently from exact arithmetic.                         *)
(***************************************************************************)
EXTENDS Integers, Sequences, FiniteSets, TLC

VARIABLES csv, cache, pc, err, defined, df, selected_types, min_sessions,
          df_filtered, avg_order_value, target_recovery_rate, df_revenue,
          total_lost_cart, total_lost_checkout, total_recoverable,
          df_segment, df_abandonment,
          order_lines, baskets, pair_counts, affinity, stage

\* the order side of the pipeline
orderVars == <<order_lines, baskets, pair_counts, affinity, stage>>

vars == <<csv, cache, pc, err, defined, df, selected_types, min_sessions,
          df_filtered, avg_order_value, target_recovery_rate, df_revenue,
          total_lost_cart, total_lost_checkout, total_recoverable,
          df_segment, df_abandonment, orderVars>>

-----------------------------------------------------------------------------
(* Bounds *)

MaxRows == 2
MaxLines == 5

-----------------------------------------------------------------------------
(* float64 values *)

NaN == [k |-> "nan", n |-> 0, d |-> 1]
PosInf == [k |-> "inf", n |-> 0, d |-> 1]
NegInf == [k |-> "ninf", n |-> 0, d |-> 1]
Fin(n, d) == [k |-> "fin", n |-> n, d |-> d]

\* integer Series a / integer Series b * 100 (numpy true division)
Pct(a, b) ==
    IF b = 0
    THEN IF a = 0 THEN NaN ELSE IF a > 0 THEN PosInf ELSE NegInf
    ELSE Fin(a * 100, b)

\* Series.fillna(0): replaces NaN only, infinities are kept
FillNa0(x) == IF x.k = "nan" THEN Fin(0, 1) ELSE x

\* nearest integer to n/d (d > 0), ties to the even neighbour
RoundHalfEven(n, d) ==
    LET f == n \div d
        r == n - f * d
    IN  IF 2 * r < d THEN f
        ELSE IF 2 * r > d THEN f + 1
        ELSE IF f % 2 = 0 THEN f ELSE f + 1

\* Series.round(2): the value in hundredths; NaN and infinities pass through
Round2(x) == IF x.k = "fin" THEN Fin(RoundHalfEven(x.n * 100, x.d), 100) ELSE x

\* x >= c and x < c for a float x and an integer literal c (IEEE comparisons)
GE(x, c) == IF x.k = "fin" THEN x.n >= c * x.d ELSE x.k = "inf"
LT(x, c) == IF x.k = "fin" THEN x.n < c * x.d ELSE x.k = "ninf"

IsFinite(x) == x.k = "fin"

-----------------------------------------------------------------------------
(* Sequence helpers (DataFrame column reductions) *)

\* Series.sum() of an integer column
RECURSIVE Sum(_)
Sum(s) == IF s = <<>> THEN 0 ELSE Head(s) + Sum(Tail(s))

\* Series.max() of a non-empty integer column
RECURSIVE Max(_)
Max(s) ==
    IF Len(s) = 1 THEN Head(s)
    ELSE LET m == Max(Tail(s)) IN IF Head(s) >= m THEN Head(s) ELSE m

-----------------------------------------------------------------------------
(* Input tables *)

\* a missing cell of the 'Landing page type' column (pandas NaN)
NA == "<NA>"

\* compact value sets for the rows of multi-row tables
PageTypes == {NA, "Product"}
SessionsVals == {0, 1000}
CartVals == {5, 50}
CheckoutVals == {20, 60}
CompletedVals == {10}

\* richer value sets for single-row tables
RowSessionsVals == {0, 100, 1000}
RowCartVals == {0, 10, 11, 50, 20001}
RowCheckoutVals == {0, 4, 10, 25, 60, 20002}
RowCompletedVals == {0, 1, 10, 60}

\* widget values offered to the user
MinSessionsChoices == {0, 100}
AovChoices == {0, 5, 50}
RateChoices == {0, 30, 100}

RawRows == [type : PageTypes, sessions : SessionsVals, cart : CartVals,
            checkout : CheckoutVals, completed : CompletedVals]

\* rows of a CSV that has no 'Landing page type' column
UntypedRows == [sessions : SessionsVals, cart : CartVals,
                checkout : CheckoutVals, completed : CompletedVals]

RichRows == [type : PageTypes, sessions : RowSessionsVals, cart : RowCartVals,
             checkout : RowCheckoutVals, completed : RowCompletedVals]

Tables(Rows, n) == UNION {[1..m -> Rows] : m \in 0..n}

MissingFile == [exists |-> FALSE, hasTypeCol |-> FALSE, rows |-> <<>>]
CsvFile(hasType, rows) == [exists |-> TRUE, hasTypeCol |-> hasType, rows |-> rows]

Inputs ==
    {MissingFile}
    \cup {CsvFile(TRUE, t) : t \in Tables(RawRows, MaxRows)}
    \cup {CsvFile(FALSE, t) : t \in Tables(UntypedRows, MaxRows)}

RowInputs ==
    {MissingFile}
    \cup {CsvFile(TRUE, t) : t \in Tables(RichRows, 1)}
    \cup {CsvFile(FALSE, t) : t \in Tables(UntypedRows, 1)}

-----------------------------------------------------------------------------
(* State after construction: nothing loaded, no name of the script bound *)

Blank ==
    /\ pc = "start"
    /\ err = ""
    /\ defined = {}
    /\ df = <<>>
    /\ selected_types = {}
    /\ min_sessions = 0
    /\ df_filtered = <<>>
    /\ avg_order_value = 0
    /\ target_recovery_rate = 0
    /\ df_revenue = <<>>
    /\ total_lost_cart = 0
    /\ total_lost_checkout = 0
    /\ total_recoverable = 0
    /\ df_segment = <<>>
    /\ df_abandonment = <<>>

\* st.cache_data entry of load_data for the default file name; the process
\* starts with nothing memoized
NoCache == [full |-> FALSE, table |-> <<>>]

\* product titles and order names of the order-line export
Titles == {"A", "B", "C"}
OrderIds == {"o1", "o2"}

NoCounts == [p \in Titles \X Titles |-> 0]

\* no order export given
NoOrders ==
    /\ order_lines = <<>>
    /\ baskets = {}
    /\ pair_counts = NoCounts
    /\ affinity = {}
    /\ stage = "idle"

Init == csv \in Inputs /\ cache = NoCache /\ Blank /\ NoOrders

InitRow == csv \in RowInputs /\ cache = NoCache /\ Blank /\ NoOrders

-----------------------------------------------------------------------------
(* load_data and its call site *)

\* variant: a different default literal
FillNaUnknown_Lower(t) == IF t = NA THEN "unknown" ELSE t

FillNaUnknown(t) == IF t = NA THEN "Unknown" ELSE t

\* pd.read_csv gives a RangeIndex; fillna('Unknown') on the page type column
load_data(file) ==
    [i \in 1..Len(file.rows) |->
        [idx |-> i - 1,
         type |-> FillNaUnknown(file.rows[i].type),
         sessions |-> file.rows[i].sessions,
         cart |-> file.rows[i].cart,
         checkout |-> file.rows[i].checkout,
         completed |-> file.rows[i].completed]]

Fail(e) == /\ pc' = "error"
           /\ err' = e

LoadNotFound ==
    /\ pc = "start"
    /\ ~cache.full
    /\ ~csv.exists
    /\ pc' = "stopped"
    /\ err' = "FileNotFoundError"
    /\ UNCHANGED <<orderVars, csv, cache, defined, df, selected_types, min_sessions, df_filtered,
                   avg_order_value, target_recovery_rate, df_revenue,
                   total_lost_cart, total_lost_checkout, total_recoverable,
                   df_segment, df_abandonment>>

\* df['Landing page type'] on a frame without that column
LoadKeyError ==
    /\ pc = "start"
    /\ ~cache.full
    /\ csv.exists
    /\ ~csv.hasTypeCol
    /\ Fail("KeyError")
    /\ UNCHANGED <<orderVars, csv, cache, defined, df, selected_types, min_sessions, df_filtered,
                   avg_order_value, target_recovery_rate, df_revenue,
                   total_lost_cart, total_lost_checkout, total_recoverable,
                   df_segment, df_abandonment>>

\* @st.cache_data keys the call on its argument, the file name: a memoized
\* table is returned without reading the file, a fresh one is memoized
LoadOk ==
    /\ pc = "start"
    /\ cache.full \/ (csv.exists /\ csv.hasTypeCol)
    /\ df' = IF cache.full THEN cache.table ELSE load_data(csv)
    /\ cache' = [full |-> TRUE, table |-> df']
    /\ defined' = defined \cup {"df"}
    /\ pc' = "loaded"
    /\ UNCHANGED <<orderVars, csv, err, selected_types, min_sessions, df_filtered,
                   avg_order_value, target_recovery_rate, df_revenue,
                   total_lost_cart, total_lost_checkout, total_recoverable,
                   df_segment, df_abandonment>>

-----------------------------------------------------------------------------
(* Sidebar filters *)

all_types == {df[i].type : i \in 1..Len(df)}

SessionsCol(t) == [i \in 1..Len(t) |-> t[i].sessions]

\* int(df['Sessions'].max()/10); the slider widens its range to hold value=100
SliderMax ==
    LET m == Max(SessionsCol(df)) \div 10
    IN  IF m >= 100 THEN m ELSE 100

Filter(t, sel, ms) ==
    SelectSeq(t, LAMBDA r : r.type \in sel /\ r.sessions >= ms)

\* max() of an empty column is NaN and int(NaN) raises
FiltersValueError ==
    /\ pc = "loaded"
    /\ df = <<>>
    /\ Fail("ValueError")
    /\ UNCHANGED <<orderVars, csv, cache, defined, df, selected_types, min_sessions, df_filtered,
                   avg_order_value, target_recovery_rate, df_revenue,
                   total_lost_cart, total_lost_checkout, total_recoverable,
                   df_segment, df_abandonment>>

\* variant: an empty Sessions column counts as maximum 0 instead of raising
FiltersOk_EmptyAllowed ==
    /\ pc = "loaded"
    /\ \E sel \in SUBSET all_types, ms \in MinSessionsChoices :
          /\ ms <= (IF df = <<>> THEN 100 ELSE SliderMax)
          /\ selected_types' = sel
          /\ min_sessions' = ms
          /\ df_filtered' = Filter(df, sel, ms)
    /\ defined' = defined \cup {"df_filtered"}
    /\ pc' = "filtered"
    /\ UNCHANGED <<orderVars, csv, cache, err, df, avg_order_value, target_recovery_rate,
                   df_revenue, total_lost_cart, total_lost_checkout,
                   total_recoverable, df_segment, df_abandonment>>

FiltersOk ==
    /\ pc = "loaded"
    /\ df # <<>>
    /\ \E sel \in SUBSET all_types, ms \in MinSessionsChoices :
          /\ ms <= SliderMax
          /\ selected_types' = sel
          /\ min_sessions' = ms
          /\ df_filtered' = Filter(df, sel, ms)
    /\ defined' = defined \cup {"df_filtered"}
    /\ pc' = "filtered"
    /\ UNCHANGED <<orderVars, csv, cache, err, df, avg_order_value, target_recovery_rate,
                   df_revenue, total_lost_cart, total_lost_checkout,
                   total_recoverable, df_segment, df_abandonment>>

-----------------------------------------------------------------------------
(* Derived metrics *)

ConversionRate(r) == Round2(Pct(r.completed, r.sessions))
AddToCartRate(r) == Round2(Pct(r.cart, r.sessions))
CartToCheckoutRate(r) == Round2(FillNa0(Pct(r.checkout, r.cart)))
CheckoutCompletionRate(r) == Round2(FillNa0(Pct(r.completed, r.checkout)))
\* variant: negative rates clamped to 0
CartAbandonmentRate_Clamped(r) ==
    LET x == Round2(FillNa0(Pct(r.cart - r.checkout, r.cart)))
    IN  IF LT(x, 0) THEN Fin(0, 100) ELSE x

CartAbandonmentRate(r) == Round2(FillNa0(Pct(r.cart - r.checkout, r.cart)))
AddedButNeverCheckout(r) == r.cart - r.checkout
ReachedButNeverCompleted(r) == r.checkout - r.completed

AddMetrics(r) ==
    [idx |-> r.idx, type |-> r.type, sessions |-> r.sessions, cart |-> r.cart,
     checkout |-> r.checkout, completed |-> r.completed,
     conv_rate |-> ConversionRate(r),
     atc_rate |-> AddToCartRate(r),
     cart_rate |-> CartToCheckoutRate(r),
     checkout_comp |-> CheckoutCompletionRate(r),
     abandon_rate |-> CartAbandonmentRate(r),
     anc |-> AddedButNeverCheckout(r),
     rnc |-> ReachedButNeverCompleted(r)]

Metrics ==
    /\ pc = "filtered"
    /\ df_filtered' = [i \in 1..Len(df_filtered) |-> AddMetrics(df_filtered[i])]
    /\ defined' = defined \cup {"metrics"}
    /\ pc' = "metrics"
    /\ UNCHANGED <<orderVars, csv, cache, err, df, selected_types, min_sessions,
                   avg_order_value, target_recovery_rate, df_revenue,
                   total_lost_cart, total_lost_checkout, total_recoverable,
                   df_segment, df_abandonment>>

-----------------------------------------------------------------------------
(* Tab 5: revenue opportunity.  avg_order_value is in whole dollars; the     *)
(* 'Lost' columns are in dollars and, to keep target_recovery_rate / 100     *)
(* exact, the 'Recoverable' columns are in cents.                            *)

\* variant: any page with a cart addition counts as meaningful traffic
MinCartAdds_One(t) == SelectSeq(t, LAMBDA r : r.cart >= 1)

MinCartAdds(t) == SelectSeq(t, LAMBDA r : r.cart >= 10)

\* variant: the checkout drop-off is left out of the row total
AddRevenue_CartOnly(r, aov, rate) ==
    LET lost_cart == r.anc * aov
        lost_checkout == r.rnc * aov
    IN  [idx |-> r.idx, anc |-> r.anc, rnc |-> r.rnc,
         lost_cart |-> lost_cart,
         rec_cart |-> lost_cart * rate,
         lost_checkout |-> lost_checkout,
         rec_checkout |-> lost_checkout * rate,
         total_rec |-> lost_cart * rate]

AddRevenue(r, aov, rate) ==
    LET lost_cart == r.anc * aov
        lost_checkout == r.rnc * aov
    IN  [idx |-> r.idx, anc |-> r.anc, rnc |-> r.rnc,
         lost_cart |-> lost_cart,
         rec_cart |-> lost_cart * rate,
         lost_checkout |-> lost_checkout,
         rec_checkout |-> lost_checkout * rate,
         total_rec |-> lost_cart * rate + lost_checkout * rate]

RevenueTable(t, aov, rate) ==
    LET base == MinCartAdds(t)
    IN  [i \in 1..Len(base) |-> AddRevenue(base[i], aov, rate)]

Revenue ==
    /\ pc = "metrics"
    /\ \E aov \in AovChoices, rate \in RateChoices :
          LET rev == RevenueTable(df_filtered, aov, rate)
          IN  /\ avg_order_value' = aov
              /\ target_recovery_rate' = rate
              /\ df_revenue' = rev
              /\ total_lost_cart' = Sum([i \in 1..Len(rev) |-> rev[i].lost_cart])
              /\ total_lost_checkout' =
                     Sum([i \in 1..Len(rev) |-> rev[i].lost_checkout])
              /\ total_recoverable' = Sum([i \in 1..Len(rev) |-> rev[i].total_rec])
    /\ defined' = defined \cup {"df_revenue"}
    /\ pc' = "revenue"
    /\ UNCHANGED <<orderVars, csv, cache, err, df, selected_types, min_sessions, df_filtered,
                   df_segment, df_abandonment>>

-----------------------------------------------------------------------------
(* Tab 6: product segmentation (labels without their emoji prefix) *)

\* variant: the Hidden Gem rule is tested before the Star rule
categorize_product_GemFirst(row) ==
    LET cart_rate == row.cart_rate
        checkout_comp == row.checkout_comp
        conv_rate == row.conv_rate
    IN  IF GE(checkout_comp, 60) /\ LT(cart_rate, 40)
        THEN "Hidden Gems"
        ELSE IF GE(conv_rate, 5) /\ GE(checkout_comp, 60)
        THEN "Star Products"
        ELSE IF row.cart >= 50 /\ LT(conv_rate, 3)
        THEN "High Traffic Underperformers"
        ELSE IF GE(cart_rate, 50) /\ LT(checkout_comp, 40)
        THEN "Checkout Leakers"
        ELSE IF GE(row.atc_rate, 10) /\ LT(cart_rate, 50)
        THEN "Cart Abandoners"
        ELSE IF LT(conv_rate, 2)
        THEN "Needs Attention"
        ELSE "Average Performers"

\* variant: the Needs Attention rule is tested before the Cart Abandoner rule
categorize_product_AttentionEarly(row) ==
    LET cart_rate == row.cart_rate
        checkout_comp == row.checkout_comp
        conv_rate == row.conv_rate
    IN  IF GE(conv_rate, 5) /\ GE(checkout_comp, 60)
        THEN "Star Products"
        ELSE IF row.cart >= 50 /\ LT(conv_rate, 3)
        THEN "High Traffic Underperformers"
        ELSE IF GE(checkout_comp, 60) /\ LT(cart_rate, 40)
        THEN "Hidden Gems"
        ELSE IF GE(cart_rate, 50) /\ LT(checkout_comp, 40)
        THEN "Checkout Leakers"
        ELSE IF LT(conv_rate, 2)
        THEN "Needs Attention"
        ELSE IF GE(row.atc_rate, 10) /\ LT(cart_rate, 50)
        THEN "Cart Abandoners"
        ELSE "Average Performers"

categorize_product(row) ==
    LET cart_rate == row.cart_rate
        checkout_comp == row.checkout_comp
        conv_rate == row.conv_rate
    IN  IF GE(conv_rate, 5) /\ GE(checkout_comp, 60)
        THEN "Star Products"
        ELSE IF row.cart >= 50 /\ LT(conv_rate, 3)
        THEN "High Traffic Underperformers"
        ELSE IF GE(checkout_comp, 60) /\ LT(cart_rate, 40)
        THEN "Hidden Gems"
        ELSE IF GE(cart_rate, 50) /\ LT(checkout_comp, 40)
        THEN "Checkout Leakers"
        ELSE IF GE(row.atc_rate, 10) /\ LT(cart_rate, 50)
        THEN "Cart Abandoners"
        ELSE IF LT(conv_rate, 2)
        THEN "Needs Attention"
        ELSE "Average Performers"

AddSegment(r) ==
    [idx |-> r.idx, type |-> r.type, sessions |-> r.sessions, cart |-> r.cart,
     checkout |-> r.checkout, completed |-> r.completed,
     conv_rate |-> r.conv_rate, atc_rate |-> r.atc_rate,
     cart_rate |-> r.cart_rate, checkout_comp |-> r.checkout_comp,
     segment |-> categorize_product(r)]

\* DataFrame.apply(axis=1) on a frame without rows returns the frame itself,
\* and assigning a many-column frame to the single column 'Segment' raises
SegmentValueError ==
    /\ pc = "revenue"
    /\ MinCartAdds(df_filtered) = <<>>
    /\ Fail("ValueError")
    /\ UNCHANGED <<orderVars, csv, cache, defined, df, selected_types, min_sessions, df_filtered,
                   avg_order_value, target_recovery_rate, df_revenue,
                   total_lost_cart, total_lost_checkout, total_recoverable,
                   df_segment, df_abandonment>>

SegmentOk ==
    /\ pc = "revenue"
    /\ MinCartAdds(df_filtered) # <<>>
    /\ df_segment' = LET base == MinCartAdds(df_filtered)
                     IN  [i \in 1..Len(base) |-> AddSegment(base[i])]
    /\ defined' = defined \cup {"df_segment"}
    /\ pc' = "segment"
    /\ UNCHANGED <<orderVars, csv, cache, err, df, selected_types, min_sessions, df_filtered,
                   avg_order_value, target_recovery_rate, df_revenue,
                   total_lost_cart, total_lost_checkout, total_recoverable,
                   df_abandonment>>

-----------------------------------------------------------------------------
(* Cart abandonment analysis *)

AbandonmentTable(t) == SelectSeq(t, LAMBDA r : r.cart > 10)

Abandonment ==
    /\ pc = "segment"
    /\ df_abandonment' = AbandonmentTable(df_filtered)
    /\ defined' = defined \cup {"df_abandonment"}
    /\ pc' = "done"
    /\ UNCHANGED <<orderVars, csv, cache, err, df, selected_types, min_sessions, df_filtered,
                   avg_order_value, target_recovery_rate, df_revenue,
                   total_lost_cart, total_lost_checkout, total_recoverable,
                   df_segment>>

-----------------------------------------------------------------------------

Next ==
    \/ LoadNotFound
    \/ LoadKeyError
    \/ LoadOk
    \/ FiltersValueError
    \/ FiltersOk
    \/ Metrics
    \/ Revenue
    \/ SegmentValueError
    \/ SegmentOk
    \/ Abandonment

\* runs over tables of up to MaxRows rows
Spec == Init /\ [][Next]_vars

\* runs over single-row tables with the richer value sets
SpecRow == InitRow /\ [][Next]_vars

-----------------------------------------------------------------------------
(* A session: the script is run again and again in one server process, each *)
(* time on the default file, which may have been replaced on disk since the *)
(* previous run.  The memoized load survives from run to run.               *)

RunInputs ==
    {MissingFile}
    \cup {CsvFile(TRUE, t) : t \in Tables(RawRows, 1)}
    \cup {CsvFile(FALSE, t) : t \in Tables(UntypedRows, 0)}

InitRuns == csv \in RunInputs /\ cache = NoCache /\ Blank /\ NoOrders

\* the script has ended (last line, st.stop() or an uncaught exception) and
\* is started from the top; every name of the previous run is gone
Rerun ==
    /\ pc \in {"done", "stopped", "error"}
    /\ csv' \in RunInputs
    /\ pc' = "start"
    /\ err' = ""
    /\ defined' = {}
    /\ df' = <<>>
    /\ selected_types' = {}
    /\ min_sessions' = 0
    /\ df_filtered' = <<>>
    /\ avg_order_value' = 0
    /\ target_recovery_rate' = 0
    /\ df_revenue' = <<>>
    /\ total_lost_cart' = 0
    /\ total_lost_checkout' = 0
    /\ total_recoverable' = 0
    /\ df_segment' = <<>>
    /\ df_abandonment' = <<>>
    /\ UNCHANGED <<cache, orderVars>>

NextRuns ==
    \/ LoadNotFound
    \/ LoadKeyError
    \/ LoadOk
    \/ FiltersValueError
    \/ FiltersOk
    \/ Metrics
    \/ Revenue
    \/ SegmentValueError
    \/ SegmentOk
    \/ Abandonment
    \/ Rerun

SpecRuns == InitRuns /\ [][NextRuns]_vars

-----------------------------------------------------------------------------
(* Basket Extractor and Affinity Aggregator (spec sections 4.2 and 4.3).    *)
(* Order lines carry an order name and a product title; the optional        *)
(* quantity column is absent.                                                *)

MinPairCountChoices == {1, 2, 3}

OrderLines == [orderId : OrderIds, productTitle : Titles]

LineTables == UNION {[1..m -> OrderLines] : m \in 0..MaxLines}

\* the distinct product titles of one order
TitlesOf(lines, o) ==
    {lines[i].productTitle : i \in {j \in 1..Len(lines) : lines[j].orderId = o}}

\* group by order, keep the orders with at least 2 distinct titles
ExtractBaskets(lines) ==
    {[order |-> o, titles |-> TitlesOf(lines, o)] :
        o \in {x \in OrderIds : Cardinality(TitlesOf(lines, x)) >= 2}}

\* variant: every title is also paired with itself
PairsOf_WithSelf(titles) == titles \X titles

\* every ordered pair of distinct titles of one basket
PairsOf(titles) == {p \in titles \X titles : p[1] # p[2]}

\* accumulate one count per ordered pair, basket after basket
RECURSIVE Accumulate(_, _)
Accumulate(bs, counts) ==
    IF bs = {} THEN counts
    ELSE LET b == CHOOSE x \in bs : TRUE
             next == [p \in Titles \X Titles |->
                         IF p \in PairsOf(b.titles) THEN counts[p] + 1
                         ELSE counts[p]]
         IN  Accumulate(bs \ {b}, next)

\* rows of the affinity table: the pairs that reach the minimum count
AffinityTable(counts, minPairCount) ==
    {[mainProduct |-> p[1], upsellCandidate |-> p[2], count |-> counts[p]] :
        p \in {q \in Titles \X Titles :
                  counts[q] >= 1 /\ counts[q] >= minPairCount}}

FunnelIdle ==
    UNCHANGED <<csv, cache, pc, err, defined, df, selected_types, min_sessions,
                df_filtered, avg_order_value, target_recovery_rate, df_revenue,
                total_lost_cart, total_lost_checkout, total_recoverable,
                df_segment, df_abandonment>>

Extract ==
    /\ stage = "lines"
    /\ baskets' = ExtractBaskets(order_lines)
    /\ stage' = "baskets"
    /\ UNCHANGED <<order_lines, pair_counts, affinity>>
    /\ FunnelIdle

Aggregate ==
    /\ stage = "baskets"
    /\ pair_counts' = Accumulate(baskets, NoCounts)
    /\ stage' = "pairs"
    /\ UNCHANGED <<order_lines, baskets, affinity>>
    /\ FunnelIdle

Threshold ==
    /\ stage = "pairs"
    /\ \E minPairCount \in MinPairCountChoices :
          affinity' = AffinityTable(pair_counts, minPairCount)
    /\ stage' = "table"
    /\ UNCHANGED <<order_lines, baskets, pair_counts>>
    /\ FunnelIdle

InitAffinity ==
    /\ csv = MissingFile
    /\ cache = NoCache
    /\ Blank
    /\ order_lines \in LineTables
    /\ baskets = {}
    /\ pair_counts = NoCounts
    /\ affinity = {}
    /\ stage = "lines"

NextAffinity ==
    \/ Extract
    \/ Aggregate
    \/ Threshold

\* the order side alone, over every table of up to MaxLines order lines
SpecAffinity == InitAffinity /\ [][NextAffinity]_vars

-----------------------------------------------------------------------------
(* Properties *)

IsZero(x) == x.k = "fin" /\ x.n = 0

HasMetrics == "metrics" \in defined

\* C1: every record whose sessionsReachedCheckout is 0 has a checkout
\* completion rate of exactly 0 (not NaN, not infinite), whatever its
\* sessionsCompleted.
C1_ZeroCheckoutCompletionIsZero ==
    HasMetrics =>
        \A i \in 1..Len(df_filtered) :
            df_filtered[i].checkout = 0 => IsZero(df_filtered[i].checkout_comp)

\* C2: every record that reaches the metric stage has a finite conversion
\* rate: completed / sessions * 100 (to two decimals) when sessions > 0 and
\* exactly 0 when sessions = 0, never NaN or undefined.
C2_ConversionRateDefined ==
    HasMetrics =>
        \A i \in 1..Len(df_filtered) :
            LET r == df_filtered[i]
            IN  /\ IsFinite(r.conv_rate)
                /\ r.sessions = 0 => IsZero(r.conv_rate)
                /\ r.sessions > 0 =>
                       r.conv_rate.n =
                           RoundHalfEven(r.completed * 10000, r.sessions)

\* C3: every record whose sessionsWithCartAdd is 0 has a cart abandonment
\* rate and a cart-to-checkout rate of exactly 0, whatever its
\* sessionsReachedCheckout.
C3_ZeroCartAddRatesAreZero ==
    HasMetrics =>
        \A i \in 1..Len(df_filtered) :
            df_filtered[i].cart = 0 =>
                /\ IsZero(df_filtered[i].abandon_rate)
                /\ IsZero(df_filtered[i].cart_rate)

\* C4 as stated: every record with sessionsWithCartAdd > 0 and
\* sessionsReachedCheckout > sessionsWithCartAdd has a strictly negative
\* cart abandonment rate.
C4_NegativeWheneverCheckoutExceedsCart ==
    HasMetrics =>
        \A i \in 1..Len(df_filtered) :
            LET r == df_filtered[i]
            IN  (r.cart > 0 /\ r.checkout > r.cart) => LT(r.abandon_rate, 0)

\* C4 as amended: for every record with sessionsWithCartAdd > 0 the cart
\* abandonment rate is the signed quotient rounded to two decimals and
\* never clamped: it is never positive when reachedCheckout > cartAdd, it is
\* strictly negative whenever (reachedCheckout - cartAdd) * 20000 > cartAdd
\* (a smaller excess rounds to zero), it is never negative when
\* reachedCheckout <= cartAdd, and the abandonment table carries that same
\* value for each of its records.
C4_SignedRoundedAbandonment ==
    /\ HasMetrics =>
          \A i \in 1..Len(df_filtered) :
              LET r == df_filtered[i]
              IN  r.cart > 0 =>
                    /\ IsFinite(r.abandon_rate)
                    /\ r.checkout > r.cart => r.abandon_rate.n <= 0
                    /\ (r.checkout - r.cart) * 20000 > r.cart =>
                           LT(r.abandon_rate, 0)
                    /\ r.checkout <= r.cart => GE(r.abandon_rate, 0)
    /\ "df_abandonment" \in defined =>
          \A j \in 1..Len(df_abandonment) :
              LET a == df_abandonment[j]
              IN  /\ a.cart > 10
                  /\ \E i \in 1..Len(df_filtered) :
                         /\ df_filtered[i].idx = a.idx
                         /\ df_filtered[i].abandon_rate = a.abandon_rate
                  /\ (a.checkout - a.cart) * 20000 > a.cart =>
                         LT(a.abandon_rate, 0)

\* the abandonment table holds a record whose rate is below -100
C4_Witness ==
    /\ pc = "done"
    /\ \E j \in 1..Len(df_abandonment) :
           /\ df_abandonment[j].checkout > df_abandonment[j].cart
           /\ LT(df_abandonment[j].abandon_rate, -100)

\* C5: every record of the segment table with conversionRate >= 5 and
\* checkout completion rate >= 60 is labelled Star, whatever its other
\* fields.
C5_StarFirst ==
    "df_segment" \in defined =>
        \A i \in 1..Len(df_segment) :
            (GE(df_segment[i].conv_rate, 5) /\ GE(df_segment[i].checkout_comp, 60))
                => df_segment[i].segment = "Star Products"

\* a Star record that also satisfies the Hidden Gem rule
C5_Witness ==
    /\ "df_segment" \in defined
    /\ \E i \in 1..Len(df_segment) :
           LET r == df_segment[i]
           IN  /\ GE(r.conv_rate, 5) /\ GE(r.checkout_comp, 60)
               /\ GE(r.checkout_comp, 60) /\ LT(r.cart_rate, 40)
               /\ r.segment = "Star Products"

\* the ordered rule list of the classifier below the Star rule
RuleHolds(n, r) ==
    CASE n = 2 -> r.cart >= 50 /\ LT(r.conv_rate, 3)
      [] n = 3 -> GE(r.checkout_comp, 60) /\ LT(r.cart_rate, 40)
      [] n = 4 -> GE(r.cart_rate, 50) /\ LT(r.checkout_comp, 40)
      [] n = 5 -> GE(r.atc_rate, 10) /\ LT(r.cart_rate, 50)
      [] n = 6 -> LT(r.conv_rate, 2)
      [] OTHER -> FALSE

Bucket(n) ==
    CASE n = 2 -> "High Traffic Underperformers"
      [] n = 3 -> "Hidden Gems"
      [] n = 4 -> "Checkout Leakers"
      [] n = 5 -> "Cart Abandoners"
      [] n = 6 -> "Needs Attention"
      [] OTHER -> "Average Performers"

IsStar(r) == GE(r.conv_rate, 5) /\ GE(r.checkout_comp, 60)

\* C6: every record of the segment table that is not a Star carries the
\* bucket of the first rule (in the order High-Traffic Underperformer,
\* Hidden Gem, Checkout Leaker, Cart Abandoner, Needs Attention) whose
\* condition it satisfies, and Average Performer when it satisfies none.
C6_FirstMatchWins ==
    "df_segment" \in defined =>
        \A i \in 1..Len(df_segment) :
            LET r == df_segment[i]
                hits == {n \in 2..6 : RuleHolds(n, r)}
            IN  ~ IsStar(r) =>
                    /\ hits = {} => r.segment = Bucket(7)
                    /\ \A n \in hits :
                           (\A m \in hits : n <= m) => r.segment = Bucket(n)

\* a non-Star record satisfying three rules gets the bucket of the earliest
C6_Witness ==
    /\ "df_segment" \in defined
    /\ \E i \in 1..Len(df_segment) :
           LET r == df_segment[i]
           IN  /\ ~ IsStar(r)
               /\ RuleHolds(2, r) /\ RuleHolds(3, r) /\ RuleHolds(6, r)
               /\ r.segment = "High Traffic Underperformers"

\* sum of both drop-off counts over the records of the revenue table
DropOffCount ==
    Sum([i \in 1..Len(df_filtered) |->
            IF \E j \in 1..Len(df_revenue) : df_revenue[j].idx = df_filtered[i].idx
            THEN (df_filtered[i].cart - df_filtered[i].checkout)
                 + (df_filtered[i].checkout - df_filtered[i].completed)
            ELSE 0])

\* C7: the recoverable revenue (in cents) is the drop-off count of the
\* revenue table times averageOrderValue times targetRecoveryRate, hence 0
\* when either parameter is 0 and linear in each parameter.
C7_RecoverableIsLinear ==
    "df_revenue" \in defined =>
        /\ total_recoverable =
               DropOffCount * avg_order_value * target_recovery_rate
        /\ (avg_order_value = 0 \/ target_recovery_rate = 0) =>
               total_recoverable = 0

\* two records with different drop-offs in the revenue table, both
\* parameters positive
C7_Witness ==
    /\ "df_revenue" \in defined
    /\ Len(df_revenue) >= 2
    /\ df_revenue[1].rec_cart # df_revenue[2].rec_cart
    /\ avg_order_value = 5
    /\ target_recovery_rate = 30
    /\ total_recoverable # 0

Unusable == ~ csv.exists \/ csv.rows = <<>>

\* C8: when the input file is missing or has zero rows the run never gets
\* past the sidebar: no derived table is ever bound, and once the run has
\* stopped it is in a fatal state that names its error.
C8_UnusableInputIsFatal ==
    Unusable =>
        /\ pc \in {"start", "loaded", "stopped", "error"}
        /\ defined \subseteq {"df"}
        /\ df_filtered = <<>> /\ df_revenue = <<>>
        /\ df_segment = <<>> /\ df_abandonment = <<>>
        /\ pc \in {"stopped", "error"} => err # ""

\* a CSV with a header and zero rows has ended the run with an error
C8_Witness ==
    /\ csv.exists /\ csv.hasTypeCol /\ csv.rows = <<>>
    /\ pc = "error"
    /\ err = "ValueError"

\* C9: when the input has no page-type column the load is not fatal: the
\* table is loaded and every record has pageType "Unknown".
C9_MissingTypeColumnNonFatal ==
    (csv.exists /\ ~ csv.hasTypeCol /\ pc # "start") =>
        /\ pc # "error"
        /\ "df" \in defined
        /\ Len(df) = Len(csv.rows)
        /\ \A i \in 1..Len(df) : df[i].type = "Unknown"

\* C10: after loading, the table has exactly the input's records in the
\* input's order; a record whose page type is absent has pageType "Unknown"
\* and every other record keeps its page type; the counts are untouched.
C10_UnknownDefault ==
    "df" \in defined =>
        /\ Len(df) = Len(csv.rows)
        /\ \A i \in 1..Len(df) :
               LET raw == csv.rows[i]
               IN  /\ raw.type = NA => df[i].type = "Unknown"
                   /\ raw.type # NA => df[i].type = raw.type
                   /\ df[i].sessions = raw.sessions
                   /\ df[i].cart = raw.cart
                   /\ df[i].checkout = raw.checkout
                   /\ df[i].completed = raw.completed

\* a loaded table with one absent and one present page type
C10_Witness ==
    /\ pc = "loaded"
    /\ Len(df) = 2
    /\ csv.rows[1].type = NA /\ df[1].type = "Unknown"
    /\ csv.rows[2].type = "Product" /\ df[2].type = "Product"

\* the tables a run derives from its own raw input and parameters alone
OwnFiltered ==
    LET own == Filter(load_data(csv), selected_types, min_sessions)
    IN  IF HasMetrics THEN [i \in 1..Len(own) |-> AddMetrics(own[i])] ELSE own

OwnRevenue == RevenueTable(OwnFiltered, avg_order_value, target_recovery_rate)

\* C11: the script is stateless between runs: in every run the loaded table
\* is the load of that run's raw input, and the filtered, metric and revenue
\* tables are those derived from that run's raw input and parameters alone,
\* whatever runs came before.
C11_StatelessBetweenRuns ==
    /\ "df" \in defined =>
          csv.exists /\ csv.hasTypeCol /\ df = load_data(csv)
    /\ "df_filtered" \in defined =>
          csv.exists /\ csv.hasTypeCol /\ df_filtered = OwnFiltered
    /\ "df_revenue" \in defined =>
          csv.exists /\ csv.hasTypeCol /\ df_revenue = OwnRevenue

\* the orders whose set of distinct titles contains both a and b
OrdersWithBoth(a, b) ==
    {o \in OrderIds : \E i, j \in 1..Len(order_lines) :
        /\ order_lines[i].orderId = o /\ order_lines[i].productTitle = a
        /\ order_lines[j].orderId = o /\ order_lines[j].productTitle = b}

DistinctTitles(o) ==
    Cardinality({t \in Titles : \E i \in 1..Len(order_lines) :
        order_lines[i].orderId = o /\ order_lines[i].productTitle = t})

RECURSIVE SumOver(_)
SumOver(f) ==
    IF DOMAIN f = {} THEN 0
    ELSE LET x == CHOOSE y \in DOMAIN f : TRUE
         IN  f[x] + SumOver([z \in DOMAIN f \ {x} |-> f[z]])

\* C12: once the pairs are counted, the count of every ordered pair of
\* distinct titles (A, B) is the number of orders whose distinct titles
\* contain both A and B; count(A, B) = count(B, A); no title is paired with
\* itself; and the counts add up to n * (n - 1) per order of n distinct
\* titles (nothing from an order with fewer than 2).
C12_AffinityCounts ==
    stage \in {"pairs", "table"} =>
        /\ \A a, b \in Titles :
               /\ a # b => pair_counts[<<a, b>>] = Cardinality(OrdersWithBoth(a, b))
               /\ pair_counts[<<a, b>>] = pair_counts[<<b, a>>]
               /\ a = b => pair_counts[<<a, b>>] = 0
        /\ SumOver(pair_counts) =
               SumOver([o \in OrderIds |-> DistinctTitles(o) * (DistinctTitles(o) - 1)])

\* an order with a duplicate title next to a single-title order: the pair
\* of the first order counts once, both ways
C12_Witness ==
    /\ stage = "pairs"
    /\ \E i, j \in 1..Len(order_lines) :
           /\ i # j
           /\ order_lines[i] = order_lines[j]
           /\ order_lines[i] = [orderId |-> "o1", productTitle |-> "A"]
    /\ OrdersWithBoth("A", "B") = {"o1"}
    /\ DistinctTitles("o2") = 1
    /\ pair_counts[<<"A", "B">>] = 1
    /\ pair_counts[<<"B", "A">>] = 1

SegmentLabels ==
    {"Star Products", "High Traffic Underperformers", "Hidden Gems",
     "Checkout Leakers", "Cart Abandoners", "Needs Attention",
     "Average Performers"}

\* tab 6 has been executed: it bound the segment table, or raised on finding
\* no page with 10 cart additions
SegmentTabRan ==
    \/ "df_segment" \in defined
    \/ pc = "error" /\ "df_revenue" \in defined

\* C13: once the segment tab has run, a loaded record is in the segment
\* table if and only if its page type is selected, its sessions reach the
\* minimum-sessions setting and its cart additions are at least 10; the
\* table holds loaded records only, each at most once, each with one of the
\* seven labels.
C13_LabelledIffQualifies ==
    SegmentTabRan =>
        /\ \A i \in 1..Len(df) :
               (\E j \in 1..Len(df_segment) : df_segment[j].idx = df[i].idx)
               <=> /\ df[i].type \in selected_types
                   /\ df[i].sessions >= min_sessions
                   /\ df[i].cart >= 10
        /\ \A j \in 1..Len(df_segment) :
               /\ \E i \in 1..Len(df) :
                      /\ df[i].idx = df_segment[j].idx
                      /\ df[i].type = df_segment[j].type
                      /\ df[i].sessions = df_segment[j].sessions
                      /\ df[i].cart = df_segment[j].cart
               /\ df_segment[j].segment \in SegmentLabels
               /\ \A k \in 1..Len(df_segment) :
                      df_segment[k].idx = df_segment[j].idx => k = j

\* of two loaded records with a selected type, the one with 50 cart
\* additions is labelled and the one with 5 is not
C13_Witness ==
    /\ pc = "segment"
    /\ Len(df) = 2
    /\ Len(df_segment) = 1
    /\ df[1].cart = 5 /\ df[1].type \in selected_types
    /\ df[1].sessions >= min_sessions
    /\ df[2].cart = 50
    /\ df_segment[1].idx = df[2].idx

====
